---- MODULE Spec2Model ----
(***************************************************************************)
(* A model of agent_utils.py: the two module-level caches behind           *)
(* load_data / get_profile / get_column_info, the pandas aggregation       *)
(* helpers, html.data_table and page_template.                             *)
(*                                                                         *)
(* Python values are records tagged by a "kind" field, so that any two     *)
(* values can be compared: None, a raised exception, a DataFrame object,   *)
(* a parsed JSON value.                                                    *)
(***************************************************************************)
EXTENDS Integers, Sequences, FiniteSets, TLC

VARIABLES
    cached_df,       \* module global _cached_df
    cached_profile,  \* module global _cached_profile
    fs_csv,          \* storage: path -> content of the CSV file there
    fs_json,         \* storage: path -> content of the JSON file there
    nextId,          \* identity of the next DataFrame object read_csv creates
    pc,              \* per thread: position inside load_data
    arg,             \* per thread: the path argument of its load_data call
    tmp,             \* per thread: the DataFrame read_csv handed it, not yet stored
    ret,             \* per thread: what its last load_data call returned
    last             \* the last completed call: operation, arguments, outcome

vars == <<cached_df, cached_profile, fs_csv, fs_json, nextId, pc, arg, tmp, ret, last>>

(***************************************************************************)
(* Bounds of the model.                                                    *)
(***************************************************************************)
NThreads == 2        \* threads calling load_data
MaxCols == 2         \* entries in a profile's column list
MaxAggRows == 3      \* rows of a DataFrame given to aggregate_by
MaxCatRows == 4      \* rows of a DataFrame given to get_top_categories
MaxN == 3            \* the n of get_top_categories
MaxSeriesRows == 2   \* rows of a DataFrame given to time_series_aggregate
MaxTableRows == 3    \* rows of a DataFrame given to html.data_table

(***************************************************************************)
(* Python values.                                                          *)
(***************************************************************************)
None == [kind |-> "None"]
Raise(type) == [kind |-> "Error", type |-> type]
IsError(v) == v.kind = "Error"

Min(a, b) == IF a <= b THEN a ELSE b
Max(a, b) == IF a >= b THEN a ELSE b

(***************************************************************************)
(* Storage.  A path holds no file, a file the parser rejects, or a file    *)
(* that parses.                                                            *)
(***************************************************************************)
DefaultCsv == "/home/user/data.csv"
DefaultJson == "/home/user/profile.json"
CsvPaths == {DefaultCsv, "/tmp/other.csv"}
JsonPaths == {DefaultJson, "/tmp/other.json"}

Absent == [kind |-> "Absent"]
Malformed == [kind |-> "Malformed"]
CsvFile(data) == [kind |-> "Csv", data |-> data]
JsonFile(value) == [kind |-> "Json", value |-> value]

ThreadCsvContents == {Absent, CsvFile("rows-v1")}
CsvContents == {Absent, Malformed, CsvFile("rows-v1"), CsvFile("rows-v2")}

\* One entry of the profile's column list; pos stands for the entry's other fields.
ColEntry(has_name, name, pos) == [has_name |-> has_name, name |-> name, pos |-> pos]
ColNames == {"price", "qty"}
EntryShapes == {[has_name |-> TRUE, name |-> n] : n \in ColNames}
                   \cup {[has_name |-> FALSE, name |-> ""]}
ColumnLists ==
    UNION {{[i \in 1..k |-> ColEntry(f[i].has_name, f[i].name, i)] :
               f \in [1..k -> EntryShapes]} : k \in 0..MaxCols}
Dict(has_columns, columns) ==
    [kind |-> "Dict", has_columns |-> has_columns, columns |-> columns]
ProfileDicts == {Dict(TRUE, cols) : cols \in ColumnLists} \cup {Dict(FALSE, <<>>)}
JsonContents == {Absent, Malformed, JsonFile(None)} \cup {JsonFile(d) : d \in ProfileDicts}
SmallJsonContents ==
    {Absent, Malformed, JsonFile(None), JsonFile(Dict(FALSE, <<>>)),
     JsonFile(Dict(TRUE, <<ColEntry(TRUE, "price", 1)>>))}

(***************************************************************************)
(* pd.read_csv(path) and open(path) + json.load(f).                        *)
(***************************************************************************)
read_csv(path) ==
    CASE fs_csv[path].kind = "Absent" -> Raise("FileNotFoundError")
      [] fs_csv[path].kind = "Malformed" -> Raise("ParserError")
      [] OTHER -> [kind |-> "Table", id |-> nextId, data |-> fs_csv[path].data]

json_load(path) ==
    CASE fs_json[path].kind = "Absent" -> Raise("FileNotFoundError")
      [] fs_json[path].kind = "Malformed" -> Raise("JSONDecodeError")
      [] OTHER -> fs_json[path].value

(***************************************************************************)
(* load_data(path) run to completion: the new cache, the outcome, and      *)
(* whether storage was read.                                               *)
(***************************************************************************)
load_data_always_reads(path) ==
    LET got == read_csv(path)
    IN  IF IsError(got)
        THEN [cache |-> cached_df, out |-> got, read |-> TRUE]
        ELSE [cache |-> got, out |-> got, read |-> TRUE]

load_data(path) ==
    IF cached_df # None
    THEN [cache |-> cached_df, out |-> cached_df, read |-> FALSE]
    ELSE LET got == read_csv(path)
         IN  IF IsError(got)
             THEN [cache |-> cached_df, out |-> got, read |-> TRUE]
             ELSE [cache |-> got, out |-> got, read |-> TRUE]

get_profile_caches_failure(path) ==
    IF cached_profile # None
    THEN [cache |-> cached_profile, out |-> cached_profile, read |-> FALSE]
    ELSE LET got == json_load(path)
         IN  [cache |-> IF IsError(got) THEN Dict(FALSE, <<>>) ELSE got,
              out |-> got, read |-> TRUE]

get_profile(path) ==
    IF cached_profile # None
    THEN [cache |-> cached_profile, out |-> cached_profile, read |-> FALSE]
    ELSE LET got == json_load(path)
         IN  IF IsError(got)
             THEN [cache |-> cached_profile, out |-> got, read |-> TRUE]
             ELSE [cache |-> got, out |-> got, read |-> TRUE]

(***************************************************************************)
(* The loop of get_column_info over profile.get('columns', []).            *)
(***************************************************************************)
RECURSIVE scan_columns(_, _, _)
scan_columns(cols, column_name, i) ==
    IF i > Len(cols) THEN None
    ELSE IF ~cols[i].has_name THEN Raise("KeyError")
    ELSE IF cols[i].name = column_name
         THEN [kind |-> "Column", name |-> cols[i].name, pos |-> cols[i].pos]
    ELSE scan_columns(cols, column_name, i + 1)

get_column_info_swallows(column_name) ==
    LET p == get_profile(DefaultJson)
    IN  [cache |-> p.cache, read |-> p.read,
         out |-> IF IsError(p.out) \/ p.out = None THEN None
                 ELSE LET r == scan_columns(p.out.columns, column_name, 1)
                      IN  IF IsError(r) THEN None ELSE r]

get_column_info(column_name) ==
    LET p == get_profile(DefaultJson)
    IN  [cache |-> p.cache, read |-> p.read,
         out |-> IF IsError(p.out) THEN p.out
                 ELSE IF p.out = None THEN Raise("AttributeError")
                 ELSE scan_columns(p.out.columns, column_name, 1)]

(***************************************************************************)
(* Sequential callers: each call runs to completion.                       *)
(***************************************************************************)
Threads == 1..NThreads
thread_vars == <<pc, arg, tmp, ret>>

LoadData(path) ==
    LET r == load_data(path)
    IN  /\ cached_df' = r.cache
        /\ nextId' = IF r.read /\ ~IsError(r.out) THEN nextId + 1 ELSE nextId
        /\ last' = [op |-> "load_data", path |-> path, out |-> r.out, read |-> r.read]
        /\ UNCHANGED <<cached_profile, fs_csv, fs_json, thread_vars>>

GetProfile(path) ==
    LET r == get_profile(path)
    IN  /\ cached_profile' = r.cache
        /\ last' = [op |-> "get_profile", path |-> path, out |-> r.out, read |-> r.read]
        /\ UNCHANGED <<cached_df, fs_csv, fs_json, nextId, thread_vars>>

GetColumnInfo(column_name) ==
    LET r == get_column_info(column_name)
    IN  /\ cached_profile' = r.cache
        /\ last' = [op |-> "get_column_info", name |-> column_name,
                    out |-> r.out, read |-> r.read]
        /\ UNCHANGED <<cached_df, fs_csv, fs_json, nextId, thread_vars>>

\* The environment replaces, creates or removes a file between calls.
WriteCsv(path, content) ==
    /\ fs_csv[path] # content
    /\ fs_csv' = [fs_csv EXCEPT ![path] = content]
    /\ last' = [op |-> "write_csv", path |-> path]
    /\ UNCHANGED <<cached_df, cached_profile, fs_json, nextId, thread_vars>>

WriteJson(path, content) ==
    /\ fs_json[path] # content
    /\ fs_json' = [fs_json EXCEPT ![path] = content]
    /\ last' = [op |-> "write_json", path |-> path]
    /\ UNCHANGED <<cached_df, cached_profile, fs_csv, nextId, thread_vars>>

\* The state at import: both caches empty, the data file and its profile in
\* place at the default paths.
InitCaches ==
    /\ cached_df = None
    /\ cached_profile = None
    /\ fs_csv = [p \in CsvPaths |-> IF p = DefaultCsv THEN CsvFile("rows-v1") ELSE Absent]
    /\ fs_json = [p \in JsonPaths |->
                     IF p = DefaultJson
                     THEN JsonFile(Dict(TRUE, <<ColEntry(TRUE, "price", 1)>>))
                     ELSE Absent]
    /\ nextId = 0
    /\ pc = [t \in Threads |-> "idle"]
    /\ arg = [t \in Threads |-> DefaultCsv]
    /\ tmp = [t \in Threads |-> None]
    /\ ret = [t \in Threads |-> None]

Init ==
    /\ InitCaches
    /\ last = [op |-> "import"]

\* Data access, called sequentially, with the files changing between calls.
NextData ==
    \/ \E path \in CsvPaths : LoadData(path)
    \/ \E path \in JsonPaths : GetProfile(path)
    \/ \E path \in CsvPaths, content \in CsvContents : WriteCsv(path, content)
    \/ \E path \in JsonPaths, content \in SmallJsonContents : WriteJson(path, content)

SpecData == Init /\ [][NextData]_vars

\* The profile lookup, over every shape of profile file at the default path.
NextProfile ==
    \/ \E path \in JsonPaths : GetProfile(path)
    \/ \E name \in ColNames \cup {"absent"} : GetColumnInfo(name)
    \/ \E content \in JsonContents : WriteJson(DefaultJson, content)
    \/ \E path \in JsonPaths \ {DefaultJson}, content \in SmallJsonContents :
           WriteJson(path, content)

SpecProfile == Init /\ [][NextProfile]_vars

(***************************************************************************)
(* Claims about the caches.                                                *)
(***************************************************************************)

\* C1: once a load_data call has succeeded, every later load_data call, with
\* any path and whatever the files now hold, returns the cached Table object
\* itself (the first one ever created), reads nothing and leaves the cache alone.
C1_CachedInstanceReturned ==
    [][(cached_df # None /\ last'.op = "load_data")
          => /\ last'.out = cached_df
             /\ ~last'.read
             /\ cached_df' = cached_df
             /\ cached_df.id = 0
             /\ nextId' = nextId]_vars

\* C1 witness: a call with the non-default path, whose file no longer holds
\* what was loaded, got the cached object without a read.
C1_Witness ==
    /\ last.op = "load_data"
    /\ last.path # DefaultCsv
    /\ ~last.read
    /\ cached_df.kind = "Table"
    /\ last.out = cached_df
    /\ fs_csv[last.path] # CsvFile(cached_df.data)
    /\ fs_csv[DefaultCsv] # CsvFile(cached_df.data)

\* The first entry of cols that the scan stops at: the first one that has no
\* name field or whose name is the one looked up.
FirstStop(cols, column_name) ==
    LET stops == {i \in 1..Len(cols) : ~cols[i].has_name \/ cols[i].name = column_name}
    IN  IF stops = {} THEN 0 ELSE CHOOSE i \in stops : \A j \in stops : i <= j

\* C7 as stated: get_column_info never raises.
C7_NeverRaises == last.op = "get_column_info" => ~IsError(last.out)

\* C7 amended: get_column_info raises exactly when the profile cannot be used
\* (nothing cached and the default file is missing, malformed or holds null)
\* or when the scan meets an entry without a name field before any match;
\* otherwise it returns the first entry with that name, or None when there
\* is none, also when the profile has no columns section.
C7_RaisesOnlyOnBadProfile ==
    last.op = "get_column_info" =>
        LET f == fs_json[DefaultJson]
            k == FirstStop(cached_profile.columns, last.name)
        IN  IF cached_profile = None
            THEN /\ last.read
                 /\ f.kind \in {"Absent", "Malformed"} \/ f = JsonFile(None)
                 /\ f.kind = "Absent" => last.out = Raise("FileNotFoundError")
                 /\ f.kind = "Malformed" => last.out = Raise("JSONDecodeError")
                 /\ f = JsonFile(None) => last.out = Raise("AttributeError")
            ELSE /\ last.read => f = JsonFile(cached_profile)
                 /\ k = 0 => last.out = None
                 /\ k > 0 /\ ~cached_profile.columns[k].has_name
                        => last.out = Raise("KeyError")
                 /\ k > 0 /\ cached_profile.columns[k].has_name
                        => /\ last.out.kind = "Column"
                           /\ last.out.name = last.name
                           /\ last.out.pos = k

\* C7 witness: the call loaded a profile that names the column twice and
\* returned the first of the two entries.
C7_Witness ==
    /\ last.op = "get_column_info"
    /\ last.read
    /\ cached_profile # None
    /\ Len(cached_profile.columns) = 2
    /\ \A i \in 1..2 : cached_profile.columns[i].name = last.name
    /\ last.out.kind = "Column"
    /\ last.out.pos = 1

\* C10: a load_data or get_profile call that fails leaves both caches as they
\* were, and empty; a call on an empty cache reads the file at its own path;
\* a call skips the read only when the cache is populated; and neither loader
\* touches the other loader's cache.
C10_FailedLoadLeavesCaches ==
    [][/\ last'.op = "load_data" =>
            /\ cached_profile' = cached_profile
            /\ IsError(last'.out) => cached_df = None /\ cached_df' = None
            /\ cached_df = None =>
                   /\ last'.read
                   /\ fs_csv[last'.path].kind = "Csv" =>
                          /\ last'.out.kind = "Table"
                          /\ last'.out.data = fs_csv[last'.path].data
                          /\ cached_df' = last'.out
                   /\ fs_csv[last'.path].kind # "Csv" => IsError(last'.out)
            /\ ~last'.read => cached_df # None
       /\ last'.op = "get_profile" =>
            /\ cached_df' = cached_df
            /\ IsError(last'.out) => cached_profile = None /\ cached_profile' = None
            /\ cached_profile = None =>
                   /\ last'.read
                   /\ fs_json[last'.path].kind = "Json" =>
                          /\ last'.out = fs_json[last'.path].value
                          /\ cached_profile' = last'.out
                   /\ fs_json[last'.path].kind # "Json" => IsError(last'.out)
            /\ ~last'.read => cached_profile # None]_vars

\* C10 witness: after a failed get_profile, with the Table cache already
\* populated, a get_profile call with the other path read that path's file.
C10_Witness ==
    /\ last.op = "get_profile"
    /\ last.path # DefaultJson
    /\ last.read
    /\ last.out = cached_profile
    /\ cached_profile.kind = "Dict"
    /\ fs_json[DefaultJson].kind = "Malformed"
    /\ cached_df # None

(***************************************************************************)
(* load_data called from several threads: the interpreter may switch       *)
(* threads between the test of the global, the read, the store to the      *)
(* global and the load of the global for the return.                       *)
(***************************************************************************)
cache_hit_never == FALSE

cache_hit == cached_df # None

Call(t, path) ==
    /\ pc[t] = "idle"
    /\ pc' = [pc EXCEPT ![t] = "check"]
    /\ arg' = [arg EXCEPT ![t] = path]
    /\ UNCHANGED <<cached_df, cached_profile, fs_csv, fs_json, nextId, tmp, ret, last>>

\* if _cached_df is not None: return _cached_df
Check(t) ==
    /\ pc[t] = "check"
    /\ IF cache_hit
       THEN /\ ret' = [ret EXCEPT ![t] = cached_df]
            /\ pc' = [pc EXCEPT ![t] = "idle"]
       ELSE /\ pc' = [pc EXCEPT ![t] = "read"]
            /\ ret' = ret
    /\ UNCHANGED <<cached_df, cached_profile, fs_csv, fs_json, nextId, arg, tmp, last>>

\* pd.read_csv(path)
Read(t) ==
    /\ pc[t] = "read"
    /\ LET got == read_csv(arg[t])
       IN  IF IsError(got)
           THEN /\ ret' = [ret EXCEPT ![t] = got]
                /\ pc' = [pc EXCEPT ![t] = "idle"]
                /\ UNCHANGED <<tmp, nextId>>
           ELSE /\ tmp' = [tmp EXCEPT ![t] = got]
                /\ nextId' = nextId + 1
                /\ pc' = [pc EXCEPT ![t] = "store"]
                /\ ret' = ret
    /\ UNCHANGED <<cached_df, cached_profile, fs_csv, fs_json, arg, last>>

\* _cached_df = <the DataFrame just read>
Store(t) ==
    /\ pc[t] = "store"
    /\ cached_df' = tmp[t]
    /\ tmp' = [tmp EXCEPT ![t] = None]
    /\ pc' = [pc EXCEPT ![t] = "return"]
    /\ UNCHANGED <<cached_profile, fs_csv, fs_json, nextId, arg, ret, last>>

\* return _cached_df
Return(t) ==
    /\ pc[t] = "return"
    /\ ret' = [ret EXCEPT ![t] = cached_df]
    /\ pc' = [pc EXCEPT ![t] = "idle"]
    /\ UNCHANGED <<cached_df, cached_profile, fs_csv, fs_json, nextId, arg, tmp, last>>

NextThreads ==
    \/ \E t \in Threads, path \in CsvPaths : Call(t, path)
    \/ \E t \in Threads : Check(t)
    \/ \E t \in Threads : Read(t)
    \/ \E t \in Threads : Store(t)
    \/ \E t \in Threads : Return(t)
    \/ \E path \in CsvPaths, content \in ThreadCsvContents : WriteCsv(path, content)

SpecThreads == Init /\ [][NextThreads]_vars

\* C9 as stated: once a Table is stored in the cache no thread overwrites it.
C9_FirstWriteWins == [][cached_df # None => cached_df' = cached_df]_vars

\* C9 amended: a thread that finds the cache populated when it tests it
\* returns the cached Table and never stores, and the cache never becomes
\* empty again; but every thread that tested the cache while it was empty
\* stores the Table it read, over whatever is cached by then, so the last of
\* the racing threads' Tables is the one that stays.
C9_OnlyRacingThreadsStore ==
    [][/\ \A t \in Threads :
            (pc[t] = "check" /\ pc'[t] # "check" /\ cached_df # None)
                => /\ pc'[t] = "idle"
                   /\ ret'[t] = cached_df
                   /\ cached_df' = cached_df
       /\ cached_df # None => cached_df' # None
       /\ cached_df' # cached_df =>
              \E t \in Threads : pc[t] = "store" /\ cached_df' = tmp[t]
       /\ (cached_df # None /\ \A t \in Threads : pc[t] \in {"idle", "check", "return"})
              => cached_df' = cached_df]_vars

\* C9 witness: two calls have returned different Table objects, and the one
\* cached is not the first one that was stored.
C9_Witness ==
    \E t, u \in Threads :
        /\ ret[t].kind = "Table" /\ ret[u].kind = "Table"
        /\ ret[t].id # ret[u].id
        /\ cached_df = ret[u]
        /\ \A v \in Threads : pc[v] = "idle"

(***************************************************************************)
(* DataFrames of the aggregation helpers.  A DataFrame is the sequence of  *)
(* its rows, a row maps each column name to a cell.  A numeric cell or an  *)
(* aggregated value is an exact fraction n/d in lowest terms, or NaN; a    *)
(* text cell is a string, NullStr for a missing one.                       *)
(***************************************************************************)
NaN == [kind |-> "NaN"]

RECURSIVE Gcd(_, _)
Gcd(a, b) == IF b = 0 THEN a ELSE Gcd(b, a % b)

Ratio(n, d) == LET g == Gcd(n, d) IN [kind |-> "Num", n |-> n \div g, d |-> d \div g]
Num(n) == [kind |-> "Num", n |-> n, d |-> 1]

NullStr == "<NA>"
\* The distinct text values, in their sort order.
RegionOrder == <<"A", "B", "C">>
Regions == {RegionOrder[i] : i \in 1..Len(RegionOrder)}
SalesCells == {Num(1), Num(2), NaN}
Columns == {"region", "sales"}

Frame(rows) == [kind |-> "Frame", rows |-> rows]

SeqsUpTo(S, n) == UNION {[1..k -> S] : k \in 0..n}

\* df[col] as the sequence of its cells
ColumnOf(df, col) == [i \in 1..Len(df) |-> df[i][col]]

IsPresent(c) == c # NaN

RECURSIVE SumNum(_)
SumNum(cells) == IF cells = <<>> THEN 0 ELSE Head(cells).n + SumNum(Tail(cells))

RECURSIVE MinNum(_)
MinNum(cells) ==
    IF Len(cells) = 1 THEN Head(cells).n ELSE Min(Head(cells).n, MinNum(Tail(cells)))

RECURSIVE MaxNum(_)
MaxNum(cells) ==
    IF Len(cells) = 1 THEN Head(cells).n ELSE Max(Head(cells).n, MaxNum(Tail(cells)))

\* Names that .agg(name) resolves to a reduction: the five the docstring
\* lists and, of the others pandas knows, first and size.  A string that
\* names no such method has no attribute of that name.
DocumentedAggs == {"sum", "mean", "count", "min", "max"}
PandasAggs == DocumentedAggs \cup {"first", "size"}

\* cells.agg(agg_func) for one group or one time bucket: NaN cells are skipped
Agg(agg_func, cells) ==
    LET present == SelectSeq(cells, IsPresent)
    IN  CASE agg_func = "sum" -> Num(SumNum(present))
          [] agg_func = "count" -> Num(Len(present))
          [] agg_func = "size" -> Num(Len(cells))
          [] agg_func = "mean" ->
                IF present = <<>> THEN NaN ELSE Ratio(SumNum(present), Len(present))
          [] agg_func = "min" -> IF present = <<>> THEN NaN ELSE Num(MinNum(present))
          [] agg_func = "max" -> IF present = <<>> THEN NaN ELSE Num(MaxNum(present))
          [] agg_func = "first" -> IF present = <<>> THEN NaN ELSE present[1]

\* a >= b in a descending sort that puts NaN last
Geq(a, b) ==
    \/ b = NaN
    \/ a # NaN /\ a.n * b.d >= b.n * a.d

IsPermutation(p, n) ==
    /\ p \in [1..n -> 1..n]
    /\ \A i, j \in 1..n : p[i] = p[j] => i = j

sort_values_unsorted(rows, col) == {rows}

\* rows.sort_values(col, ascending=False): the default kind is quicksort,
\* which is not stable, so rows with equal keys may come out in any order.
sort_values(rows, col) ==
    {[i \in 1..Len(rows) |-> rows[p[i]]] :
        p \in {q \in [1..Len(rows) -> 1..Len(rows)] :
                 /\ IsPermutation(q, Len(rows))
                 /\ \A i, j \in 1..Len(rows) :
                        i < j => Geq(rows[q[i]][col], rows[q[j]][col])}}

\* df.groupby(group_col)[value_col].agg(agg_func).reset_index(): one row per
\* distinct non-null key, keys in ascending order
GroupRows(df, group_col, value_col, agg_func) ==
    LET HasKey(k) == \E i \in 1..Len(df) : df[i][group_col] = k
        keys == SelectSeq(RegionOrder, HasKey)
        CellsOf(k) ==
            LET InGroup(row) == row[group_col] = k
            IN  ColumnOf(SelectSeq(df, InGroup), value_col)
    IN  [i \in 1..Len(keys) |->
            [key |-> keys[i], value |-> Agg(agg_func, CellsOf(keys[i]))]]

aggregate_by_rejects_undocumented(df, group_col, value_col, agg_func) ==
    IF group_col \notin Columns \/ value_col \notin Columns THEN {Raise("KeyError")}
    ELSE IF agg_func \notin DocumentedAggs THEN {Raise("AttributeError")}
    ELSE {Frame(rows) :
            rows \in sort_values(GroupRows(df, group_col, value_col, agg_func), "value")}

\* The outcomes aggregate_by(df, group_col, value_col, agg_func) can have.
aggregate_by(df, group_col, value_col, agg_func) ==
    IF group_col \notin Columns THEN {Raise("KeyError")}
    ELSE IF value_col \notin Columns THEN {Raise("KeyError")}
    ELSE IF agg_func \notin PandasAggs THEN {Raise("AttributeError")}
    ELSE {Frame(rows) :
            rows \in sort_values(GroupRows(df, group_col, value_col, agg_func), "value")}

(***************************************************************************)
(* get_top_categories                                                      *)
(***************************************************************************)
\* s.head(n): the first n rows, or all but the last -n when n is negative
HeadRows(s, n) ==
    IF n >= 0 THEN SubSeq(s, 1, Min(n, Len(s)))
    ELSE SubSeq(s, 1, Max(0, Len(s) + n))

\* round(num/den, 0) of numpy: halves go to the even neighbour
RoundHalfEven(num, den) ==
    LET q == num \div den
        r == num % den
    IN  IF 2 * r < den THEN q
        ELSE IF 2 * r > den THEN q + 1
        ELSE IF q % 2 = 0 THEN q ELSE q + 1

RECURSIVE Distinct(_)
\* the distinct non-null values of a column, in order of first appearance
Distinct(cells) ==
    IF cells = <<>> THEN <<>>
    ELSE LET rest == Distinct(SubSeq(cells, 1, Len(cells) - 1))
             c == cells[Len(cells)]
         IN  IF c = NullStr \/ \E i \in 1..Len(rest) : rest[i] = c
             THEN rest ELSE Append(rest, c)

CountOf(cells, v) == Cardinality({i \in 1..Len(cells) : cells[i] = v})

\* df[column].value_counts(): counts of the non-null values, sorted descending
value_counts(cells) ==
    LET keys == Distinct(cells)
    IN  sort_values([i \in 1..Len(keys) |->
                        [key |-> keys[i], value |-> Num(CountOf(cells, keys[i]))]],
                    "value")

get_top_categories_nonnull_total(df, column, n) ==
    IF column \notin Columns THEN {Raise("KeyError")}
    ELSE LET cells == ColumnOf(df, column)
             total == Len(SelectSeq(cells, LAMBDA c : c # NullStr))
         IN  {Frame([i \in 1..Len(HeadRows(counts, n)) |->
                       [Value |-> counts[i].key,
                        Count |-> counts[i].value.n,
                        Percentage |-> RoundHalfEven(counts[i].value.n * 1000, total)]]) :
                 counts \in value_counts(cells)}

\* The outcomes get_top_categories(df, column, n) can have; Percentage is in
\* tenths of a percent (333 is 33.3).
get_top_categories(df, column, n) ==
    IF column \notin Columns THEN {Raise("KeyError")}
    ELSE LET cells == ColumnOf(df, column)
             total == Len(df)
         IN  {Frame([i \in 1..Len(HeadRows(counts, n)) |->
                       [Value |-> counts[i].key,
                        Count |-> counts[i].value.n,
                        Percentage |-> RoundHalfEven(counts[i].value.n * 1000, total)]]) :
                 counts \in value_counts(cells)}

\* The column of the spec's example: region values A, A, B, C, C, C.
ExampleFrame ==
    [i \in 1..6 |-> [region |-> <<"A", "A", "B", "C", "C", "C">>[i], sales |-> Num(1)]]

AggFrames ==
    SeqsUpTo([region : Regions \cup {NullStr}, sales : SalesCells], MaxAggRows)
CatFrames ==
    SeqsUpTo([region : Regions \cup {NullStr}, sales : {Num(1)}], MaxCatRows)
        \cup {ExampleFrame}

\* A call made and not yet returned.
Pending == [kind |-> "Pending"]

AggregateBy ==
    /\ last.op = "aggregate_by" /\ last.out = Pending
    /\ \E out \in aggregate_by(last.df, last.group_col, last.value_col, last.agg_func) :
           last' = [last EXCEPT !.out = out]
    /\ UNCHANGED <<cached_df, cached_profile, fs_csv, fs_json, nextId, thread_vars>>

GetTopCategories ==
    /\ last.op = "get_top_categories" /\ last.out = Pending
    /\ \E out \in get_top_categories(last.df, last.column, last.n) :
           last' = [last EXCEPT !.out = out]
    /\ UNCHANGED <<cached_df, cached_profile, fs_csv, fs_json, nextId, thread_vars>>

\* The calls of the aggregation helpers: every aggregation of every small
\* DataFrame, and every combination of missing column and unknown
\* aggregation on the DataFrames of at most one row.
InitAggregate ==
    /\ InitCaches
    /\ \/ \E df \in AggFrames, f \in PandasAggs :
              last = [op |-> "aggregate_by", df |-> df, group_col |-> "region",
                      value_col |-> "sales", agg_func |-> f, out |-> Pending]
       \/ \E df \in SeqsUpTo([region : Regions \cup {NullStr}, sales : SalesCells], 1),
             g \in {"region", "missing"}, v \in {"sales", "missing"},
             f \in PandasAggs \cup {"total"} :
              last = [op |-> "aggregate_by", df |-> df, group_col |-> g,
                      value_col |-> v, agg_func |-> f, out |-> Pending]
       \/ \E df \in CatFrames, c \in {"region", "missing"}, n \in 0..MaxN :
              last = [op |-> "get_top_categories", df |-> df, column |-> c,
                      n |-> n, out |-> Pending]

NextAggregate == AggregateBy \/ GetTopCategories

SpecAggregate == InitAggregate /\ [][NextAggregate]_vars

(***************************************************************************)
(* Claims about aggregate_by and get_top_categories.                       *)
(***************************************************************************)
Returned(op) == last.op = op /\ last.out.kind = "Frame"

RankOf(key) == CHOOSE i \in 1..Len(RegionOrder) : RegionOrder[i] = key

KeysOf(df, col) == {df[i][col] : i \in 1..Len(df)} \ {NullStr}

\* C4 as stated: one row per group, descending by aggregated value, and
\* groups with equal values in the order they had before the sort (the
\* ascending key order of groupby).
C4_SortedStable ==
    Returned("aggregate_by") =>
        LET rows == last.out.rows
        IN  /\ Len(rows) = Cardinality(KeysOf(last.df, last.group_col))
            /\ \A i, j \in 1..Len(rows) : i < j =>
                   /\ Geq(rows[i].value, rows[j].value)
                   /\ rows[i].value = rows[j].value
                          => RankOf(rows[i].key) < RankOf(rows[j].key)

\* C4 amended: one row per group (per distinct non-null key), in
\* non-increasing order of the aggregated value with NaN values last; the
\* order among groups with equal values is not determined.
C4_SortedOneRowPerGroup ==
    Returned("aggregate_by") =>
        LET rows == last.out.rows
            keys == KeysOf(last.df, last.group_col)
        IN  /\ Len(rows) = Cardinality(keys)
            /\ \A k \in keys : \E i \in 1..Len(rows) : rows[i].key = k
            /\ \A i, j \in 1..Len(rows) : i < j => Geq(rows[i].value, rows[j].value)

\* C4 witness: three groups came back, two with equal sums, the later key first.
C4_Witness ==
    /\ Returned("aggregate_by")
    /\ last.agg_func = "sum"
    /\ Len(last.out.rows) = 3
    /\ last.out.rows[1].value # last.out.rows[2].value
    /\ last.out.rows[2].value = last.out.rows[3].value
    /\ RankOf(last.out.rows[2].key) > RankOf(last.out.rows[3].key)

ArgsBad ==
    \/ last.agg_func \notin DocumentedAggs
    \/ last.group_col \notin Columns
    \/ last.value_col \notin Columns

\* C5 as stated: the call fails whenever agg_func is not one of the five
\* documented names or a column is absent.
C5_FailsOutsideDocumented ==
    (last.op = "aggregate_by" /\ last.out # Pending /\ ArgsBad) => IsError(last.out)

\* C5 amended: the call fails, with no result, whenever group_col or
\* value_col is absent (KeyError) or agg_func names no aggregation pandas
\* knows (AttributeError); a name pandas knows is applied and a result
\* returned, also when it is not one of the five documented names.
C5_FailsOnUnknown ==
    (last.op = "aggregate_by" /\ last.out # Pending) =>
        LET cols_ok == last.group_col \in Columns /\ last.value_col \in Columns
        IN  /\ ~cols_ok => last.out = Raise("KeyError")
            /\ cols_ok /\ last.agg_func \notin PandasAggs
                   => last.out = Raise("AttributeError")
            /\ cols_ok /\ last.agg_func \in PandasAggs => last.out.kind = "Frame"

\* C5 witness: agg_func "first", not one of the five, returned two groups.
C5_Witness ==
    /\ Returned("aggregate_by")
    /\ last.agg_func = "first"
    /\ Len(last.out.rows) = 2
    /\ last.out.rows[1].value = Num(2)

\* C6: at most n rows (the min of n and the number of distinct non-null
\* values), in descending order of count, no value left out that has a
\* higher count than one returned; each row's Count is the number of rows
\* holding its Value, its Percentage is Count * 100 / len(df), nulls included
\* in len(df), to the nearest tenth; and the spec's example comes out as given.
C6_TopCategories ==
    Returned("get_top_categories") =>
        LET rows == last.out.rows
            cells == ColumnOf(last.df, last.column)
            keys == KeysOf(last.df, last.column)
            shown == {rows[i].Value : i \in 1..Len(rows)}
        IN  /\ Len(rows) = Min(last.n, Cardinality(keys))
            /\ Cardinality(shown) = Len(rows)
            /\ shown \subseteq keys
            /\ \A i, j \in 1..Len(rows) : i < j => rows[i].Count >= rows[j].Count
            /\ \A i \in 1..Len(rows), k \in keys \ shown :
                   rows[i].Count >= CountOf(cells, k)
            /\ \A i \in 1..Len(rows) :
                   /\ rows[i].Count = CountOf(cells, rows[i].Value)
                   /\ LET diff == rows[i].Percentage * Len(last.df) - rows[i].Count * 1000
                      IN  2 * diff <= Len(last.df) /\ -2 * diff <= Len(last.df)
            /\ (last.df = ExampleFrame /\ last.n = 3) =>
                   rows = <<[Value |-> "C", Count |-> 3, Percentage |-> 500],
                            [Value |-> "A", Count |-> 2, Percentage |-> 333],
                            [Value |-> "B", Count |-> 1, Percentage |-> 167]>>

\* C6 witness: a column with a null in it, two values returned out of three,
\* percentages that add up to less than 100.
C6_Witness ==
    /\ Returned("get_top_categories")
    /\ \E i \in 1..Len(last.df) : last.df[i].region = NullStr
    /\ last.n = 2
    /\ Len(last.out.rows) = 2
    /\ Cardinality(KeysOf(last.df, "region")) = 3
    /\ last.out.rows[1].Percentage = 250
    /\ last.out.rows[1].Percentage + last.out.rows[2].Percentage < 1000

(***************************************************************************)
(* time_series_aggregate.  A date is the number of days since 2024-01-01,  *)
(* a Monday; a cell of the date column is a date, or text that does not    *)
(* parse as one.                                                           *)
(***************************************************************************)
Date(day) == [kind |-> "Date", day |-> day]
BadDate == [kind |-> "Text"]

\* Dates a day, a month and two years apart: 2024-01-01, 2024-01-03,
\* 2024-02-10 and 2026-01-10.
SeriesDays == {0, 2, 40, 740}
LastDay == CHOOSE d \in SeriesDays : \A e \in SeriesDays : e <= d

IsLeap(y) == (y % 4 = 0 /\ y % 100 # 0) \/ y % 400 = 0
DaysInMonth(y, m) ==
    CASE m \in {4, 6, 9, 11} -> 30
      [] m = 2 -> IF IsLeap(y) THEN 29 ELSE 28
      [] OTHER -> 31

\* A month is counted from January 2024 = 0, a year from 2024 = 0.
YearOfMonth(mi) == 2024 + (mi \div 12)
MonthOfYear(mi) == (mi % 12) + 1

\* The first day of every month from January 2024 on, as far as the dates
\* of the model reach: MonthStarts[mi + 1] is the first day of month mi.
RECURSIVE StartsUpTo(_)
StartsUpTo(mi) ==
    IF mi = 0 THEN <<0>>
    ELSE LET before == StartsUpTo(mi - 1)
         IN  Append(before,
                    before[mi] + DaysInMonth(YearOfMonth(mi - 1), MonthOfYear(mi - 1)))

MonthStarts == StartsUpTo(12 * ((LastDay \div 365) + 2))
MonthStart(mi) == MonthStarts[mi + 1]

MonthOf(day) ==
    CHOOSE mi \in 0..(Len(MonthStarts) - 2) : MonthStart(mi) <= day /\ day < MonthStart(mi + 1)

Freqs == {"D", "W", "M", "Y"}

\* The period of frequency freq that holds a day: days, weeks that end on
\* Sunday, calendar months, calendar years.
PeriodOf(freq, day) ==
    CASE freq = "D" -> day
      [] freq = "W" -> day \div 7
      [] freq = "M" -> MonthOf(day)
      [] freq = "Y" -> MonthOf(day) \div 12

\* The label of a period: its last day.
PeriodEnd(freq, k) ==
    CASE freq = "D" -> k
      [] freq = "W" -> 7 * k + 6
      [] freq = "M" -> MonthStart(k + 1) - 1
      [] freq = "Y" -> MonthStart(12 * (k + 1)) - 1

RECURSIVE MinDay(_)
MinDay(cells) ==
    IF Len(cells) = 1 THEN Head(cells).day ELSE Min(Head(cells).day, MinDay(Tail(cells)))

RECURSIVE MaxDay(_)
MaxDay(cells) ==
    IF Len(cells) = 1 THEN Head(cells).day ELSE Max(Head(cells).day, MaxDay(Tail(cells)))

resample_nonempty(df, date_col, value_col, freq, agg_func) ==
    LET all == {PeriodOf(freq, df[i][date_col].day) : i \in 1..Len(df)}
        RECURSIVE Ordered(_)
        Ordered(S) ==
            IF S = {} THEN <<>>
            ELSE LET k == CHOOSE x \in S : \A y \in S : x <= y
                 IN  <<k>> \o Ordered(S \ {k})
        ks == Ordered(all)
        CellsOf(k) ==
            LET InPeriod(row) == PeriodOf(freq, row[date_col].day) = k
            IN  ColumnOf(SelectSeq(df, InPeriod), value_col)
    IN  [i \in 1..Len(ks) |->
            [date |-> PeriodEnd(freq, ks[i]), value |-> Agg(agg_func, CellsOf(ks[i]))]]

\* df.set_index(date_col)[value_col].resample(freq).agg(agg_func).reset_index():
\* one row for every period from the one of the earliest date to the one of
\* the latest date, in order, whether or not any row falls in it
resample(df, date_col, value_col, freq, agg_func) ==
    IF df = <<>> THEN <<>>
    ELSE LET days == ColumnOf(df, date_col)
             lo == PeriodOf(freq, MinDay(days))
             hi == PeriodOf(freq, MaxDay(days))
             CellsOf(k) ==
                 LET InPeriod(row) == PeriodOf(freq, row[date_col].day) = k
                 IN  ColumnOf(SelectSeq(df, InPeriod), value_col)
         IN  [i \in 1..(hi - lo + 1) |->
                 [date |-> PeriodEnd(freq, lo + i - 1),
                  value |-> Agg(agg_func, CellsOf(lo + i - 1))]]

SeriesColumns == {"date", "sales"}

time_series_aggregate(df, date_col, value_col, freq, agg_func) ==
    IF date_col \notin SeriesColumns THEN Raise("KeyError")
    ELSE IF \E i \in 1..Len(df) : df[i][date_col] = BadDate THEN Raise("ValueError")
    ELSE IF value_col \notin SeriesColumns THEN Raise("KeyError")
    ELSE IF freq \notin Freqs THEN Raise("ValueError")
    ELSE IF agg_func \notin PandasAggs THEN Raise("AttributeError")
    ELSE Frame(resample(df, date_col, value_col, freq, agg_func))

SeriesCells(dates) == [date : dates, sales : {Num(1), Num(2)}]
SeriesFrames == SeqsUpTo(SeriesCells({Date(d) : d \in SeriesDays}), MaxSeriesRows)

TimeSeriesAggregate ==
    /\ last.op = "time_series_aggregate" /\ last.out = Pending
    /\ last' = [last EXCEPT !.out = time_series_aggregate(
                    last.df, last.date_col, last.value_col, last.freq, last.agg_func)]
    /\ UNCHANGED <<cached_df, cached_profile, fs_csv, fs_json, nextId, thread_vars>>

\* The calls: every frequency and documented aggregation over every small
\* DataFrame of dates, and every combination of missing column, unparseable
\* date, unknown frequency and unknown aggregation on those of at most one row.
InitSeries ==
    /\ InitCaches
    /\ \/ \E df \in SeriesFrames, fr \in Freqs, f \in DocumentedAggs :
              last = [op |-> "time_series_aggregate", df |-> df, date_col |-> "date",
                      value_col |-> "sales", freq |-> fr, agg_func |-> f, out |-> Pending]
       \/ \E df \in SeqsUpTo(SeriesCells({Date(0), BadDate}), 1),
             dc \in {"date", "missing"}, vc \in {"sales", "missing"},
             fr \in {"M", "fortnight"}, f \in {"sum", "total"} :
              last = [op |-> "time_series_aggregate", df |-> df, date_col |-> dc,
                      value_col |-> vc, freq |-> fr, agg_func |-> f, out |-> Pending]

NextSeries == TimeSeriesAggregate

SpecSeries == InitSeries /\ [][NextSeries]_vars

\* The rows of the input that fall in the period a returned row is labelled with.
Contributing(row) ==
    {i \in 1..Len(last.df) :
        PeriodEnd(last.freq, PeriodOf(last.freq, last.df[i].date.day)) = row.date}

\* C2 as stated: every returned row is a period that holds at least one input
\* row.
C2_NoEmptyBucket ==
    Returned("time_series_aggregate") =>
        \A i \in 1..Len(last.out.rows) : Contributing(last.out.rows[i]) # {}

\* C2 amended: the rows returned are the consecutive periods from the one of
\* the earliest date to the one of the latest date, in ascending order: every
\* period that holds an input row is among them, and so is every period in
\* between that holds none, with the aggregate of no values (0 for sum and
\* count, NaN for mean, min and max).
C2_EveryPeriodInRange ==
    Returned("time_series_aggregate") =>
        LET rows == last.out.rows
            days == {last.df[i].date.day : i \in 1..Len(last.df)}
            first == CHOOSE d \in days : \A e \in days : d <= e
            final == CHOOSE d \in days : \A e \in days : e <= d
        IN  /\ days = {} <=> rows = <<>>
            /\ days # {} =>
                   /\ rows[1].date = PeriodEnd(last.freq, PeriodOf(last.freq, first))
                   /\ rows[Len(rows)].date = PeriodEnd(last.freq, PeriodOf(last.freq, final))
            /\ \A i \in 1..Len(rows) :
                   /\ i < Len(rows) =>
                          /\ rows[i].date < rows[i + 1].date
                          /\ PeriodEnd(last.freq, PeriodOf(last.freq, rows[i].date + 1))
                                 = rows[i + 1].date
                   /\ Contributing(rows[i]) = {} =>
                          rows[i].value = IF last.agg_func \in {"sum", "count"}
                                          THEN Num(0) ELSE NaN

\* C2 witness: a monthly sum over two rows came back with a row, of sum 0,
\* for a month that holds no input row.
C2_Witness ==
    /\ Returned("time_series_aggregate")
    /\ last.freq = "M"
    /\ last.agg_func = "sum"
    /\ Len(last.df) = 2
    /\ \E i \in 1..Len(last.out.rows) :
           /\ Contributing(last.out.rows[i]) = {}
           /\ last.out.rows[i].value = Num(0)

(***************************************************************************)
(* page_template.  A string is the sequence of its characters.  The fixed  *)
(* text of the template, cut at the places where a value is interpolated:  *)
(***************************************************************************)
TplToTitle ==
    <<
      "<", "!", "D", "O", "C", "T", "Y", "P", "E", " ", "h", "t", "m", "l", ">", "\n",
      "<", "h", "t", "m", "l", " ", "l", "a", "n", "g", "=", "\"", "e", "n", "\"", ">",
      "\n", "<", "h", "e", "a", "d", ">", "\n", " ", " ", " ", " ", "<", "m", "e", "t",
      "a", " ", "c", "h", "a", "r", "s", "e", "t", "=", "\"", "U", "T", "F", "-", "8",
      "\"", ">", "\n", " ", " ", " ", " ", "<", "m", "e", "t", "a", " ", "n", "a", "m",
      "e", "=", "\"", "v", "i", "e", "w", "p", "o", "r", "t", "\"", " ", "c", "o", "n",
      "t", "e", "n", "t", "=", "\"", "w", "i", "d", "t", "h", "=", "d", "e", "v", "i",
      "c", "e", "-", "w", "i", "d", "t", "h", ",", " ", "i", "n", "i", "t", "i", "a",
      "l", "-", "s", "c", "a", "l", "e", "=", "1", ".", "0", "\"", ">", "\n", " ", " ",
      " ", " ", "<", "t", "i", "t", "l", "e", ">" >>

TplToFont ==
    <<
      "<", "/", "t", "i", "t", "l", "e", ">", "\n", " ", " ", " ", " ", "<", "s", "c",
      "r", "i", "p", "t", " ", "s", "r", "c", "=", "\"", "h", "t", "t", "p", "s", ":",
      "/", "/", "c", "d", "n", ".", "j", "s", "d", "e", "l", "i", "v", "r", ".", "n",
      "e", "t", "/", "n", "p", "m", "/", "c", "h", "a", "r", "t", ".", "j", "s", "\"",
      ">", "<", "/", "s", "c", "r", "i", "p", "t", ">", "\n", " ", " ", " ", " ", "<",
      "s", "t", "y", "l", "e", ">", "\n", " ", " ", " ", " ", " ", " ", " ", " ", "*",
      " ", "{", " ", "m", "a", "r", "g", "i", "n", ":", " ", "0", ";", " ", "p", "a",
      "d", "d", "i", "n", "g", ":", " ", "0", ";", " ", "b", "o", "x", "-", "s", "i",
      "z", "i", "n", "g", ":", " ", "b", "o", "r", "d", "e", "r", "-", "b", "o", "x",
      ";", " ", "}", "\n", " ", " ", " ", " ", " ", " ", " ", " ", "b", "o", "d", "y",
      " ", "{", "\n", " ", " ", " ", " ", " ", " ", " ", " ", " ", " ", " ", " ", "f",
      "o", "n", "t", "-", "f", "a", "m", "i", "l", "y", ":", " " >>

TplToBackground ==
    <<
      ";", "\n", " ", " ", " ", " ", " ", " ", " ", " ", " ", " ", " ", " ", "b", "a",
      "c", "k", "g", "r", "o", "u", "n", "d", ":", " " >>

TplToHeading ==
    <<
      ";", "\n", " ", " ", " ", " ", " ", " ", " ", " ", " ", " ", " ", " ", "c", "o",
      "l", "o", "r", ":", " ", "#", "1", "1", "1", "8", "2", "7", ";", "\n", " ", " ",
      " ", " ", " ", " ", " ", " ", " ", " ", " ", " ", "l", "i", "n", "e", "-", "h",
      "e", "i", "g", "h", "t", ":", " ", "1", ".", "5", ";", "\n", " ", " ", " ", " ",
      " ", " ", " ", " ", "}", "\n", " ", " ", " ", " ", " ", " ", " ", " ", ".", "c",
      "o", "n", "t", "a", "i", "n", "e", "r", " ", "{", "\n", " ", " ", " ", " ", " ",
      " ", " ", " ", " ", " ", " ", " ", "m", "a", "x", "-", "w", "i", "d", "t", "h",
      ":", " ", "1", "4", "0", "0", "p", "x", ";", "\n", " ", " ", " ", " ", " ", " ",
      " ", " ", " ", " ", " ", " ", "m", "a", "r", "g", "i", "n", ":", " ", "0", " ",
      "a", "u", "t", "o", ";", "\n", " ", " ", " ", " ", " ", " ", " ", " ", " ", " ",
      " ", " ", "p", "a", "d", "d", "i", "n", "g", ":", " ", "3", "2", "p", "x", ";",
      "\n", " ", " ", " ", " ", " ", " ", " ", " ", "}", "\n", " ", " ", " ", " ", " ",
      " ", " ", " ", "h", "1", " ", "{", "\n", " ", " ", " ", " ", " ", " ", " ", " ",
      " ", " ", " ", " ", "c", "o", "l", "o", "r", ":", " ", "#", "1", "1", "1", "8",
      "2", "7", ";", "\n", " ", " ", " ", " ", " ", " ", " ", " ", " ", " ", " ", " ",
      "f", "o", "n", "t", "-", "s", "i", "z", "e", ":", " ", "3", "2", "p", "x", ";",
      "\n", " ", " ", " ", " ", " ", " ", " ", " ", " ", " ", " ", " ", "f", "o", "n",
      "t", "-", "w", "e", "i", "g", "h", "t", ":", " ", "7", "0", "0", ";", "\n", " ",
      " ", " ", " ", " ", " ", " ", " ", " ", " ", " ", " ", "m", "a", "r", "g", "i",
      "n", "-", "b", "o", "t", "t", "o", "m", ":", " ", "8", "p", "x", ";", "\n", " ",
      " ", " ", " ", " ", " ", " ", " ", "}", "\n", " ", " ", " ", " ", " ", " ", " ",
      " ", ".", "s", "u", "b", "t", "i", "t", "l", "e", " ", "{", "\n", " ", " ", " ",
      " ", " ", " ", " ", " ", " ", " ", " ", " ", "c", "o", "l", "o", "r", ":", " ",
      "#", "6", "B", "7", "2", "8", "0", ";", "\n", " ", " ", " ", " ", " ", " ", " ",
      " ", " ", " ", " ", " ", "f", "o", "n", "t", "-", "s", "i", "z", "e", ":", " ",
      "1", "6", "p", "x", ";", "\n", " ", " ", " ", " ", " ", " ", " ", " ", " ", " ",
      " ", " ", "m", "a", "r", "g", "i", "n", "-", "b", "o", "t", "t", "o", "m", ":",
      " ", "3", "2", "p", "x", ";", "\n", " ", " ", " ", " ", " ", " ", " ", " ", "}",
      "\n", " ", " ", " ", " ", "<", "/", "s", "t", "y", "l", "e", ">", "\n", "<", "/",
      "h", "e", "a", "d", ">", "\n", "<", "b", "o", "d", "y", ">", "\n", " ", " ", " ",
      " ", "<", "d", "i", "v", " ", "c", "l", "a", "s", "s", "=", "\"", "c", "o", "n",
      "t", "a", "i", "n", "e", "r", "\"", ">", "\n", " ", " ", " ", " ", " ", " ", " ",
      " ", "<", "h", "1", ">" >>

TplToDate ==
    <<
      "<", "/", "h", "1", ">", "\n", " ", " ", " ", " ", " ", " ", " ", " ", "<", "p",
      " ", "c", "l", "a", "s", "s", "=", "\"", "s", "u", "b", "t", "i", "t", "l", "e",
      "\"", ">", "G", "e", "n", "e", "r", "a", "t", "e", "d", " ", "o", "n", " " >>

TplToBody ==
    <<
      "<", "/", "p", ">", "\n", " ", " ", " ", " ", " ", " ", " ", " " >>

TplTail ==
    <<
      "\n", " ", " ", " ", " ", "<", "/", "d", "i", "v", ">", "\n", "<", "/", "b", "o",
      "d", "y", ">", "\n", "<", "/", "h", "t", "m", "l", ">" >>

DefaultBackground == <<"#", "F", "9", "F", "A", "F", "B">>
DefaultFont ==
    <<"s", "y", "s", "t", "e", "m", "-", "u", "i", ",", " ", "-", "a", "p", "p", "l", "e", "-", "s", "y", "s", "t", "e", "m", ",", " ", "s", "a", "n", "s", "-", "s", "e", "r", "i", "f">>

\* branding.get(key, default), branding a dict: a function from its keys
DictGet(d, key, default) == IF key \in DOMAIN d THEN d[key] ELSE default

RECURSIVE EscapeHtml(_)
EscapeHtml(s) ==
    IF s = <<>> THEN <<>>
    ELSE (IF Head(s) = "<" THEN <<"&", "l", "t", ";">> ELSE <<Head(s)>>)
             \o EscapeHtml(Tail(s))

page_template_escaped(title, body, branding, today) ==
    TplToTitle \o title
        \o TplToFont \o DictGet(branding, "font", DefaultFont)
        \o TplToBackground \o DictGet(branding, "background", DefaultBackground)
        \o TplToHeading \o title
        \o TplToDate \o today
        \o TplToBody \o EscapeHtml(body)
        \o TplTail

\* page_template(title, body, branding) on a day that strftime('%B %d, %Y')
\* formats as today; branding None counts as the empty dict
page_template(title, body, branding, today) ==
    TplToTitle \o title
        \o TplToFont \o DictGet(branding, "font", DefaultFont)
        \o TplToBackground \o DictGet(branding, "background", DefaultBackground)
        \o TplToHeading \o title
        \o TplToDate \o today
        \o TplToBody \o body
        \o TplTail

EmptyDict == << >>
Titles == {<<"Q", "1">>, <<"<", "b", ">", "H", "i", "<", "/", "b", ">">>}
Bodies ==
    {<< >>, <<"Q", "1">>, <<"<", "/", "d", "i", "v", ">">>, <<"<", "b", ">", "H", "i", "<", "/", "b", ">">>,
     <<"<", "p", " ", "i", "d", "=", "\"", "x", "\"", ">", "&", "<", "/", "p", ">">>}
Brandings ==
    {EmptyDict,
     [font |-> <<"s", "e", "r", "i", "f">>],
     [primary |-> <<"#", "0", "0", "0">>, background |-> <<"#", "F", "F", "F">>]}
Todays == {<<"N", "o", "v", "e", "m", "b", "e", "r", " ", "0", "6", ",", " ", "2", "0", "2", "6">>, <<"M", "a", "y", " ", "0", "1", ",", " ", "2", "0", "2", "4">>}

(***************************************************************************)
(* html.data_table.  A DataFrame here is the sequence of its rows, a row    *)
(* the sequence of its cells; the fragment returned is kept as its parts:  *)
(* the header cells, the body rows and the note under the table.           *)
(***************************************************************************)
TableColumns == <<"region", "sales">>

data_table_note_at_equal(df, max_rows) ==
    LET df_display == HeadRows(df, max_rows)
    IN  [kind |-> "Html",
         headers |-> TableColumns,
         rows |-> df_display,
         note |-> IF Len(df) >= max_rows
                  THEN [kind |-> "Note", shown |-> Len(df_display), of |-> Len(df)]
                  ELSE None]

data_table(df, max_rows) ==
    LET df_display == HeadRows(df, max_rows)
    IN  [kind |-> "Html",
         headers |-> TableColumns,
         rows |-> df_display,
         note |-> IF Len(df) > max_rows
                  THEN [kind |-> "Note", shown |-> Len(df_display), of |-> Len(df)]
                  ELSE None]

TableFrames == SeqsUpTo({<<"A", 1>>, <<"B", 2>>}, MaxTableRows)

PageTemplate ==
    /\ last.op = "page_template" /\ last.out = Pending
    /\ last' = [last EXCEPT !.out =
                    [kind |-> "Page",
                     text |-> page_template(last.title, last.body, last.branding, last.today)]]
    /\ UNCHANGED <<cached_df, cached_profile, fs_csv, fs_json, nextId, thread_vars>>

DataTable ==
    /\ last.op = "data_table" /\ last.out = Pending
    /\ last' = [last EXCEPT !.out = data_table(last.df, last.max_rows)]
    /\ UNCHANGED <<cached_df, cached_profile, fs_csv, fs_json, nextId, thread_vars>>

InitHtml ==
    /\ InitCaches
    /\ \/ \E title \in Titles, body \in Bodies, branding \in Brandings, today \in Todays :
              last = [op |-> "page_template", title |-> title, body |-> body,
                      branding |-> branding, today |-> today, out |-> Pending]
       \/ \E df \in TableFrames, max_rows \in 0..(MaxTableRows + 1) :
              last = [op |-> "data_table", df |-> df, max_rows |-> max_rows,
                      out |-> Pending]

NextHtml == PageTemplate \/ DataTable

SpecHtml == InitHtml /\ [][NextHtml]_vars

\* The number of places of s at which sub occurs (Len(s) + 1 for the empty sub).
Occurrences(sub, s) ==
    Cardinality({i \in 1..(Len(s) - Len(sub) + 1) : SubSeq(s, i, i + Len(sub) - 1) = sub})

\* C3 as stated: the page holds exactly one occurrence of the body.
C3_ExactlyOneOccurrence ==
    (last.op = "page_template" /\ last.out # Pending)
        => Occurrences(last.body, last.out.text) = 1

\* C3 amended: the body is interpolated once, verbatim and unescaped, between
\* the subtitle paragraph and the closing tags: the page is the page of the
\* empty body with the body inserted at that one place.  It therefore occurs
\* at least once in the page, and more than once when it also occurs in the
\* title (interpolated twice), the date, the branding values or the markup.
C3_BodyInsertedOnce ==
    (last.op = "page_template" /\ last.out # Pending) =>
        LET text == last.out.text
            bare == page_template(last.title, << >>, last.branding, last.today)
            at == Len(bare) - Len(TplTail)
        IN  /\ text = SubSeq(bare, 1, at) \o last.body \o SubSeq(bare, at + 1, Len(bare))
            /\ SubSeq(text, at + 1, at + Len(last.body)) = last.body
            /\ Occurrences(last.body, text) >= 1
            /\ (last.body = last.title) => Occurrences(last.body, text) >= 3

\* C3 witness: a page whose body, with markup characters in it, occurs once.
C3_Witness ==
    /\ last.op = "page_template" /\ last.out # Pending
    /\ last.body = <<"<", "p", " ", "i", "d", "=", "\"", "x", "\"", ">", "&", "<", "/", "p", ">">>
    /\ Occurrences(last.body, last.out.text) = 1

\* C8: the rows rendered are the first max_rows rows of df (all of them when
\* df has fewer), and the note is there if and only if df has more rows than
\* max_rows; it then shows the number of rows rendered and the number of
\* rows of df.
C8_NoteIffTruncated ==
    (last.op = "data_table" /\ last.out # Pending) =>
        LET out == last.out
            shown == IF Len(last.df) > last.max_rows THEN last.max_rows ELSE Len(last.df)
        IN  /\ Len(out.rows) = shown
            /\ \A i \in 1..shown : out.rows[i] = last.df[i]
            /\ (out.note # None) <=> (Len(last.df) > last.max_rows)
            /\ out.note # None =>
                   /\ out.note.shown = Len(out.rows)
                   /\ out.note.of = Len(last.df)

\* C8 witness: three rows, max_rows 2: two rendered, note "Showing 2 of 3 rows".
C8_Witness ==
    /\ last.op = "data_table" /\ last.out # Pending
    /\ Len(last.df) = 3
    /\ last.max_rows = 2
    /\ last.out.rows = SubSeq(last.df, 1, 2)
    /\ last.out.note = [kind |-> "Note", shown |-> 2, of |-> 3]

====
